---- MODULE Spec2Model ----
(***************************************************************************)
(* Model of hydra_plugins/hyper_smac/hyper_smac.py: the factory make_smac  *)
(* that assembles a SMAC facade from a configuration tree, and the         *)
(* HyperSMACAdapter that translates ask/tell/finish_run onto it.           *)
(*                                                                         *)
(* Python values are records tagged with a "kind" field (their type), so   *)
(* isinstance/hasattr tests are tests on the tag.  Mappings keep their     *)
(* entries as a sequence of [k, v] records, in insertion order.            *)
(***************************************************************************)
EXTENDS Integers, Sequences, FiniteSets, TLC

VARIABLES
    smac_args,      \* the caller's configuration tree (mutated in place by make_smac)
    csv,            \* the warm-start file on disk: missing, or its rows
    pc,             \* make_smac: "start", "returned" or "raised"
    err,            \* the exception make_smac raised, "none" otherwise
    calls,          \* the calls make_smac made into its collaborators, in order
    adapter,        \* the HyperSMACAdapter make_smac returned (None before / on error)
    smac_asked,     \* engine side: the TrialInfos its native ask() returned, in order
    smac_told,      \* engine side: the (TrialInfo, TrialValue) pairs its native tell() got
    smac_calls,     \* engine side: every native call made on the facade, in order
    pending,        \* driver side: ProposedTrials asked and not yet told
    last_call       \* driver side: the adapter call just made, its arguments and result

build_vars == <<smac_args, csv, pc, err, calls, adapter>>
loop_vars == <<smac_asked, smac_told, smac_calls, pending, last_call>>
vars == <<smac_args, csv, pc, err, calls, adapter,
          smac_asked, smac_told, smac_calls, pending, last_call>>

(***************************************************************************)
(* Bounds                                                                  *)
(***************************************************************************)
MaxCallbacks == 2   \* longest "callbacks" list / mapping in the tree
MaxRows == 2        \* most rows in the warm-start file
MaxCalls == 4       \* most adapter calls in one run

(***************************************************************************)
(* Python values                                                           *)
(***************************************************************************)
None == [kind |-> "None"]
Str(s) == [kind |-> "str", v |-> s]

IsNone(x) == x.kind = "None"

\* bool(x) for the values a warm-start path can take
Truthy(x) == x.kind = "str" /\ x.v # ""

\* a dict with no entries / a tree with no keys
Empty == [k \in {} |-> None]

\* a tree or dict d without the key k (dict.pop, and the del half of it)
Without(d, k) == [x \in (DOMAIN d) \ {k} |-> d[x]]

\* a tree or dict d with d[k] = v
With(d, k, v) == [x \in (DOMAIN d) \cup {k} |-> IF x = k THEN v ELSE d[x]]

\* pathlib.Path(s): the same text, as a path object instead of a str
Path(s) == [kind |-> "Path", v |-> s.v]

\* list(d.values()) of a mapping whose entries are kept in insertion order
Values(items) == [i \in 1..Len(items) |-> items[i].v]

configspace == [kind |-> "ConfigurationSpace"]

(***************************************************************************)
(* Collaborators of make_smac                                              *)
(***************************************************************************)
\* the row -> configuration routine of hypersweeper.utils
convert_to_configuration(x, cs) ==
    [kind |-> "Configuration", configspace |-> cs, values |-> x]

\* the objective stub handed to the facade
dummy_func(arg, seed, budget) == 0

\* read_additional_configs returning the rows' configurations last row first
read_additional_configs_reversed(initial_design_fn, cs) ==
    [i \in 1..Len(csv.rows) |->
        convert_to_configuration(csv.rows[Len(csv.rows) + 1 - i], cs)]

\* pd.read_csv(fn) followed by a row-wise apply(...).to_list(): one
\* configuration per row of the file, in row order
read_additional_configs(initial_design_fn, cs) ==
    [i \in 1..Len(csv.rows) |-> convert_to_configuration(csv.rows[i], cs)]

HyperSMACAdapter(smac) == [kind |-> "HyperSMACAdapter", smac |-> smac]

\* hasattr(m, "selector") and hasattr(m.selector, "expl2callback")
HasExpl2Callback(m) == m.cap # "none" /\ m.cap = "selector_hook"

\* m.selector.expl2callback
Expl2Callback(m) == [kind |-> "expl2callback", owner |-> m.kind]

(***************************************************************************)
(* make_smac, statement by statement.  s is the frame of the call: the     *)
(* caller's tree (args), smac_kwargs (kwargs), the scenario built so far,  *)
(* the calls made, the exception raised if any, and whether                *)
(* smac_kwargs["callbacks"] is the very list object of the caller's tree.  *)
(***************************************************************************)
Frame(args) ==
    [args |-> args, kwargs |-> Empty, scenario |-> None, calls |-> <<>>,
     err |-> "none", alias |-> FALSE, result |-> None]

Raise(s, e) == [s EXCEPT !.err = e]
Call(s, c) == [s EXCEPT !.calls = Append(@, c)]

\* lines 77-78: output_directory string -> Path, in place
path_normalization(s) ==
    IF "scenario" \notin DOMAIN s.args THEN Raise(s, "KeyError: 'scenario'")
    ELSE IF "output_directory" \in DOMAIN s.args["scenario"]
         THEN [s EXCEPT !.args["scenario"]["output_directory"] = Path(@)]
         ELSE s

\* line 79: Scenario(configspace, **smac_args.pop("scenario"))
scenario_construction(s) ==
    LET kw == s.args["scenario"]
        sc == [kind |-> "Scenario", configspace |-> configspace, kwargs |-> kw]
    IN [Call(s, [fn |-> "Scenario", configspace |-> configspace, kwargs |-> kw])
          EXCEPT !.args = Without(s.args, "scenario"), !.scenario = sc]

\* lines 82-87
callback_resolution(s) ==
    IF "callbacks" \notin DOMAIN s.args
    THEN [s EXCEPT !.kwargs = With(@, "callbacks", [kind |-> "list", items |-> <<>>])]
    ELSE IF s.args["callbacks"].kind = "dict"
    THEN [s EXCEPT !.kwargs = With(@, "callbacks",
                       [kind |-> "list", items |-> Values(s.args["callbacks"].items)])]
    ELSE IF s.args["callbacks"].kind \in {"list", "ListConfig"}
    THEN [s EXCEPT !.kwargs = With(@, "callbacks", s.args["callbacks"]),
                   !.alias = TRUE]
    ELSE s

\* line 97: smac_kwargs["callbacks"].append(hook); the caller's list grows
\* too when it is the same object
append_callback(s, hook) ==
    IF "callbacks" \notin DOMAIN s.kwargs THEN Raise(s, "KeyError: 'callbacks'")
    ELSE LET grown == [s.kwargs["callbacks"] EXCEPT !.items = Append(@, hook)]
         IN [s EXCEPT !.kwargs["callbacks"] = grown,
                      !.args = IF s.alias THEN With(@, "callbacks", grown) ELSE @]

\* lines 89-97
acquisition_policy(s) ==
    IF "acquisition_function" \in DOMAIN s.args /\ "acquisition_maximizer" \in DOMAIN s.args
    THEN LET factory == s.args["acquisition_maximizer"]
             af == s.args["acquisition_function"]
             made == [kind |-> "maximizer", cap |-> factory.makes,
                      configspace |-> configspace, acquisition_function |-> af]
             s1 == [Call(s, [fn |-> "acquisition_maximizer", configspace |-> configspace,
                             acquisition_function |-> af])
                      EXCEPT !.kwargs = With(@, "acquisition_maximizer", made)]
         IN IF HasExpl2Callback(factory)
            THEN append_callback(s1, Expl2Callback(factory))
            ELSE s1
    ELSE s

\* lines 99-100
config_selector(s) ==
    IF "config_selector" \in DOMAIN s.args
    THEN [Call(s, [fn |-> "config_selector", scenario |-> s.scenario])
            EXCEPT !.kwargs = With(@, "config_selector",
                        [kind |-> "instance", of |-> "config_selector"])]
    ELSE s

\* lines 104-111: warmstart_file from the partial's keywords, else from the raw mapping
warmstart_file(initial_design_obj) ==
    IF initial_design_obj.kind = "partial" /\ "warmstart_file" \in DOMAIN initial_design_obj.keywords
    THEN initial_design_obj.keywords["warmstart_file"]
    ELSE IF initial_design_obj.kind = "dict" /\ "warmstart_file" \in DOMAIN initial_design_obj.keywords
    THEN initial_design_obj.keywords["warmstart_file"]
    ELSE None

\* lines 102-125
initial_design(s) ==
    IF "initial_design" \in DOMAIN s.args
    THEN LET obj == s.args["initial_design"]
             wf == warmstart_file(obj)
         IN IF Truthy(wf)
            THEN IF csv.kind = "missing" THEN Raise(s, "FileNotFoundError")
                 ELSE LET config_list == read_additional_configs(wf, configspace)
                      IN [Call(s, [fn |-> "get_initial_design", scenario |-> s.scenario,
                                   n_configs |-> 0, additional_configs |-> config_list])
                            EXCEPT !.kwargs = With(@, "initial_design",
                                [kind |-> "instance", of |-> "get_initial_design"])]
            ELSE IF obj.kind \in {"partial", "class"}
                 THEN [Call(s, [fn |-> "initial_design", scenario |-> s.scenario])
                         EXCEPT !.kwargs = With(@, "initial_design",
                                [kind |-> "instance", of |-> "initial_design"])]
                 ELSE Raise(s, "TypeError")
    ELSE s

\* lines 127-128
intensifier(s) ==
    IF "intensifier" \in DOMAIN s.args
    THEN [Call(s, [fn |-> "intensifier", scenario |-> s.scenario])
            EXCEPT !.kwargs = With(@, "intensifier",
                        [kind |-> "instance", of |-> "intensifier"])]
    ELSE s

\* lines 130-131
random_design(s) ==
    IF "random_design" \in DOMAIN s.args
    THEN [Call(s, [fn |-> "random_design"])
            EXCEPT !.kwargs = With(@, "random_design",
                        [kind |-> "instance", of |-> "random_design"])]
    ELSE s

\* lines 133-134
engine_instantiation(s) ==
    IF "smac_facade" \notin DOMAIN s.args THEN Raise(s, "KeyError: 'smac_facade'")
    ELSE LET smac == [kind |-> "facade", scenario |-> s.scenario,
                      target_function |-> "dummy_func", kwargs |-> s.kwargs]
         IN [Call(s, [fn |-> "smac_facade", scenario |-> s.scenario,
                      target_function |-> "dummy_func", kwargs |-> s.kwargs])
               EXCEPT !.result = HyperSMACAdapter(smac)]

\* statement stmt of make_smac, entered with frame s: skipped once an
\* earlier statement has raised
statement(stmt, s) ==
    IF s.err # "none" THEN s
    ELSE CASE stmt = 1 -> path_normalization(s)
           [] stmt = 2 -> scenario_construction(s)
           [] stmt = 3 -> callback_resolution(s)
           [] stmt = 4 -> acquisition_policy(s)
           [] stmt = 5 -> config_selector(s)
           [] stmt = 6 -> initial_design(s)
           [] stmt = 7 -> intensifier(s)
           [] stmt = 8 -> random_design(s)
           [] stmt = 9 -> engine_instantiation(s)

\* the frame of make_smac(configspace, args) when it returns or raises: the
\* statements in program order, each entered with the frame the one before
\* it left
make_smac_frame(args) ==
    LET s1 == {statement(1, s) : s \in {Frame(args)}}
        s2 == {statement(2, s) : s \in s1}
        s3 == {statement(3, s) : s \in s2}
        s4 == {statement(4, s) : s \in s3}
        s5 == {statement(5, s) : s \in s4}
        s6 == {statement(6, s) : s \in s5}
        s7 == {statement(7, s) : s \in s6}
        s8 == {statement(8, s) : s \in s7}
    IN CHOOSE r \in {statement(9, s) : s \in s8} : TRUE

make_smac ==
    /\ pc = "start"
    /\ \E s \in {make_smac_frame(smac_args)} :
          /\ smac_args' = s.args
          /\ calls' = s.calls
          /\ err' = s.err
          /\ adapter' = s.result
          /\ pc' = IF s.err = "none" THEN "returned" ELSE "raised"
    /\ UNCHANGED <<csv, smac_asked, smac_told, smac_calls, pending, last_call>>

(***************************************************************************)
(* The configuration trees make_smac is called with                        *)
(***************************************************************************)
SeqsUpTo(S, n) == UNION {[1..m -> S] : m \in 0..n}

Distinct(q) == \A i, j \in 1..Len(q) : i # j => q[i].k # q[j].k

CallbackObjects == {[kind |-> "callback", id |-> i] : i \in 1..2}
Entries == {[k |-> key, v |-> cb] : key \in {"a", "b"}, cb \in CallbackObjects}

\* one optional key of the tree: absent, or bound to one of vals
Optional(key, vals) == {Empty} \cup {With(Empty, key, v) : v \in vals}

Factory(name) == [kind |-> "factory", of |-> name]

ScenarioValues ==
    { Empty,
      With(With(Empty, "output_directory", Str("/tmp/run1")), "deterministic", [kind |-> "bool", v |-> TRUE]) }

CallbacksValues ==
    {[kind |-> knd, items |-> q] :
         knd \in {"dict", "DictConfig"},
         q \in {e \in SeqsUpTo(Entries, MaxCallbacks) : Distinct(e)}}
    \cup {[kind |-> knd, items |-> q] :
         knd \in {"list", "ListConfig"}, q \in SeqsUpTo(CallbackObjects, MaxCallbacks)}
    \cup {[kind |-> "int", v |-> 5], Str("cb")}

Capabilities == {"none", "selector", "selector_hook"}

\* an acquisition-maximizer factory: what it exposes itself, and what the
\* maximizer it makes exposes
MaximizerFactories ==
    {[kind |-> "factory", of |-> "acquisition_maximizer", cap |-> c, makes |-> m] :
         c \in Capabilities, m \in Capabilities}

AcquisitionValues ==
    {Empty, With(Empty, "acquisition_maximizer", CHOOSE f \in MaximizerFactories : TRUE)}
    \cup {With(Empty, "acquisition_function", [kind |-> "acquisition_function"])}
    \cup {With(With(Empty, "acquisition_function", [kind |-> "acquisition_function"]),
               "acquisition_maximizer", f) : f \in MaximizerFactories}

WarmstartPaths == {None, Str(""), Str("warm.csv")}

InitialDesignValues ==
    {[kind |-> "class"]}
    \cup {[kind |-> knd, keywords |-> kw] :
            knd \in {"partial", "dict"}, kw \in Optional("warmstart_file", WarmstartPaths)}

Rows == {[kind |-> "row", id |-> i] : i \in 1..2}

\* the warm-start file: missing, or a header and 1..MaxRows rows (what
\* DataFrame.apply returns for a header-only file is decided inside pandas,
\* not by this code, and is left out)
Files ==
    {[kind |-> "missing"]}
    \cup {[kind |-> "file", rows |-> q] : q \in SeqsUpTo(Rows, MaxRows) \ {<<>>}}

\* does this tree make make_smac open the warm-start file?
ReadsFile(t) ==
    "initial_design" \in DOMAIN t /\ Truthy(warmstart_file(t["initial_design"]))

NoCall == [n |-> 0, op |-> "none", args |-> <<>>, raised |-> FALSE, ret |-> None]

InitBuild ==
    /\ \E sc \in Optional("scenario", ScenarioValues),
          cb \in Optional("callbacks", CallbacksValues),
          aq \in AcquisitionValues,
          cs \in Optional("config_selector", {Factory("config_selector")}),
          id \in Optional("initial_design", InitialDesignValues),
          it \in Optional("intensifier", {Factory("intensifier")}),
          rd \in Optional("random_design", {Factory("random_design")}),
          fc \in Optional("smac_facade", {Factory("smac_facade")}) :
            smac_args = sc @@ cb @@ aq @@ cs @@ id @@ it @@ rd @@ fc
    /\ csv \in IF ReadsFile(smac_args) THEN Files ELSE {[kind |-> "missing"]}
    /\ pc = "start"
    /\ err = "none"
    /\ calls = <<>>
    /\ adapter = None
    /\ smac_asked = <<>>
    /\ smac_told = <<>>
    /\ smac_calls = <<>>
    /\ pending = {}
    /\ last_call = NoCall

NextBuild == make_smac

SpecBuild == InitBuild /\ [][NextBuild]_vars

(***************************************************************************)
(* HyperSMACAdapter                                                        *)
(***************************************************************************)
\* hypersweeper.utils.Info
Info(config, budget, load_path, seed) ==
    [kind |-> "Info", config |-> config, budget |-> budget,
     load_path |-> load_path, seed |-> seed]

\* ask() propagating a stop signal once the engine has history
ask_result_terminating(smac_info) ==
    <<Info(smac_info.config, smac_info.budget, None, smac_info.seed),
      smac_told # <<>>, FALSE>>

\* lines 51-55: what ask() returns for the engine's smac_info
ask_result(smac_info) ==
    <<Info(smac_info.config, smac_info.budget, None, smac_info.seed), FALSE, FALSE>>

\* tell() building the TrialInfo with the default seed instead of the trial's
tell_smac_info_reseeded(info) ==
    [kind |-> "TrialInfo", config |-> info.config, instance |-> None,
     seed |-> 0, budget |-> info.budget]

\* line 59: TrialInfo(info.config, seed=info.seed, budget=info.budget)
tell_smac_info(info) ==
    [kind |-> "TrialInfo", config |-> info.config, instance |-> None,
     seed |-> info.seed, budget |-> info.budget]

\* tell() building the TrialValue without the performance/cost swap
tell_smac_value_unswapped(value) ==
    LET additional_info ==
            IF ~IsNone(value.cost) THEN With(Empty, "resource_cost", value.cost) ELSE Empty
    IN [kind |-> "TrialValue", time |-> value.performance, cost |-> value.cost,
        additional_info |-> additional_info]

\* lines 61-64: TrialValue(time=value.cost, cost=value.performance, additional_info=...)
tell_smac_value(value) ==
    LET additional_info ==
            IF ~IsNone(value.cost) THEN With(Empty, "resource_cost", value.cost) ELSE Empty
    IN [kind |-> "TrialValue", time |-> value.cost, cost |-> value.performance,
        additional_info |-> additional_info]

Float(x) == [kind |-> "float", v |-> x]

\* what the engine's native ask() can return
Configurations == {convert_to_configuration(r, configspace) : r \in Rows}
Seeds == {0, 7}
Budgets == {None, Float(1)}
SmacTrialInfos ==
    {[kind |-> "TrialInfo", config |-> c, instance |-> None, seed |-> s, budget |-> b] :
        c \in Configurations, s \in Seeds, b \in Budgets}

\* what the evaluation harness can report
TrialResults ==
    {[kind |-> "Result", performance |-> Float(x), cost |-> y] :
        x \in {1, 2}, y \in {None, Float(0), Float(2)}}

OutputPaths == {Str("/tmp/run1"), Str("")}

Called(op, args, raised, ret) ==
    [n |-> last_call.n + 1, op |-> op, args |-> args, raised |-> raised, ret |-> ret]

Running == pc = "returned" /\ last_call.n < MaxCalls

\* lines 48-55; the engine's ask either raises, which propagates, or proposes a trial
ask ==
    /\ Running
    /\ smac_calls' = Append(smac_calls, [fn |-> "ask"])
    /\ \/ /\ last_call' = Called("ask", <<>>, TRUE, None)
          /\ UNCHANGED <<smac_asked, pending>>
       \/ \E smac_info \in SmacTrialInfos :
            /\ smac_asked' = Append(smac_asked, smac_info)
            /\ pending' = pending \cup {ask_result(smac_info)[1]}
            /\ last_call' = Called("ask", <<>>, FALSE, ask_result(smac_info))
    /\ UNCHANGED <<smac_args, csv, pc, err, calls, adapter, smac_told>>

\* lines 57-65; the engine's tell either raises, which propagates, or records the trial
tell(info, value) ==
    /\ Running
    /\ info \in pending
    /\ LET smac_info == tell_smac_info(info)
           smac_value == tell_smac_value(value)
       IN /\ smac_calls' = Append(smac_calls,
                 [fn |-> "tell", info |-> smac_info, value |-> smac_value])
          /\ \E raised \in BOOLEAN :
               /\ smac_told' = IF raised THEN smac_told
                               ELSE Append(smac_told, <<smac_info, smac_value>>)
               /\ last_call' = Called("tell", <<info, value>>, raised, None)
    /\ pending' = pending \ {info}
    /\ UNCHANGED <<smac_args, csv, pc, err, calls, adapter, smac_asked>>

\* finish_run flushing the engine to output_path, as other bridges do
finish_run_flushing(output_path) ==
    /\ pc = "returned" /\ last_call.n < MaxCalls
    /\ last_call' = [n |-> last_call.n + 1, op |-> "finish_run",
                     args |-> <<output_path>>, raised |-> FALSE, ret |-> None]
    /\ smac_calls' = Append(smac_calls, [fn |-> "save", path |-> output_path])
    /\ UNCHANGED <<smac_args, csv, pc, err, calls, adapter,
                   smac_asked, smac_told, pending>>

\* lines 67-68: the body is a docstring
finish_run(output_path) ==
    /\ Running
    /\ last_call' = Called("finish_run", <<output_path>>, FALSE, None)
    /\ UNCHANGED <<smac_args, csv, pc, err, calls, adapter,
                   smac_asked, smac_told, smac_calls, pending>>

\* the run starts from the adapter make_smac returns for a minimal tree
LoopTree ==
    With(With(Empty, "scenario", With(Empty, "output_directory", Str("/tmp/run1"))),
         "smac_facade", Factory("smac_facade"))

InitLoop ==
    \E s \in {make_smac_frame(LoopTree)} :
       /\ smac_args = s.args
       /\ csv = [kind |-> "missing"]
       /\ pc = "returned"
       /\ err = s.err
       /\ calls = s.calls
       /\ adapter = s.result
       /\ smac_asked = <<>>
       /\ smac_told = <<>>
       /\ smac_calls = <<>>
       /\ pending = {}
       /\ last_call = NoCall

NextLoop ==
    \/ ask
    \/ \E info \in pending, value \in TrialResults : tell(info, value)
    \/ \E output_path \in OutputPaths : finish_run(output_path)

SpecLoop == InitLoop /\ [][NextLoop]_vars

(***************************************************************************)
(* Properties of the adapter (SpecLoop)                                    *)
(***************************************************************************)
\* the adapter call this step makes, if it makes one
Calls(op) == last_call'.n = last_call.n + 1 /\ last_call'.op = op

LastSmacCall == smac_calls[Len(smac_calls)]

\* C1: tell(p, TrialResult(performance=x, cost=y)) makes exactly one native
\* call, a tell whose TrialValue has time = y and cost = x, and whose
\* additional_info has the key "resource_cost", bound to y, exactly when y
\* is not None.
C1_TellFieldMapping ==
    [][Calls("tell") =>
        LET value == last_call'.args[2]
            sent == smac_calls'[Len(smac_calls')]
        IN /\ Len(smac_calls') = Len(smac_calls) + 1
           /\ sent.fn = "tell"
           /\ sent.value.time = value.cost
           /\ sent.value.cost = value.performance
           /\ ("resource_cost" \in DOMAIN sent.value.additional_info) <=> ~IsNone(value.cost)
           /\ ~IsNone(value.cost) => sent.value.additional_info["resource_cost"] = value.cost
           /\ DOMAIN sent.value.additional_info \subseteq {"resource_cost"}]_vars

C1_Witness ==
    /\ last_call.op = "tell"
    /\ ~IsNone(last_call.args[2].cost)
    /\ last_call.args[2].cost # last_call.args[2].performance
    /\ LastSmacCall.fn = "tell"
    /\ LastSmacCall.value.time = last_call.args[2].cost
    /\ "resource_cost" \in DOMAIN LastSmacCall.value.additional_info

SameTrial(a, b) == a.config = b.config /\ a.seed = b.seed /\ a.budget = b.budget

\* C2: the ProposedTrial ask() hands out carries the configuration, seed and
\* budget of the TrialInfo the engine's ask returned, and the TrialInfo a
\* tell of that ProposedTrial hands to the engine's tell carries them again:
\* every told trial is one the engine asked.
C2_TrialEchoedUnchanged ==
    /\ (last_call.op = "ask" /\ ~last_call.raised) =>
           SameTrial(last_call.ret[1], smac_asked[Len(smac_asked)])
    /\ \A p \in pending : \E i \in 1..Len(smac_asked) : SameTrial(p, smac_asked[i])
    /\ last_call.op = "tell" =>
           /\ LastSmacCall.fn = "tell"
           /\ SameTrial(LastSmacCall.info, last_call.args[1])
           /\ \E i \in 1..Len(smac_asked) : smac_asked[i] = LastSmacCall.info
    /\ \A j \in 1..Len(smac_told) : \E i \in 1..Len(smac_asked) : smac_asked[i] = smac_told[j][1]

C2_Witness ==
    /\ last_call.op = "tell"
    /\ last_call.args[1].seed = 7
    /\ ~IsNone(last_call.args[1].budget)
    /\ Len(smac_told) = 2

\* C3: every ask() that returns, after whatever calls came before, returns
\* terminate = FALSE, optimizer_termination = FALSE and a trial whose
\* load_path is None.
C3_AskNeverTerminates ==
    (last_call.op = "ask" /\ ~last_call.raised) =>
        /\ last_call.ret[2] = FALSE
        /\ last_call.ret[3] = FALSE
        /\ IsNone(last_call.ret[1].load_path)

C3_Witness ==
    /\ last_call.op = "ask"
    /\ ~last_call.raised
    /\ last_call.n = MaxCalls
    /\ Len(smac_told) >= 1
    /\ Len(smac_calls) < last_call.n

\* C8: a call of finish_run, at any point and with any output_path, makes no
\* call into the engine, leaves the adapter, the engine's history and the
\* driver's pending trials as they were, raises nothing and returns None.
C8_FinishRunNoEffect ==
    [][Calls("finish_run") =>
        /\ UNCHANGED <<adapter, smac_asked, smac_told, smac_calls, pending>>
        /\ ~last_call'.raised
        /\ IsNone(last_call'.ret)]_vars

C8_Witness ==
    /\ last_call.op = "finish_run"
    /\ Len(smac_told) >= 1
    /\ pending # {}

(***************************************************************************)
(* Properties of make_smac (SpecBuild)                                     *)
(***************************************************************************)
\* the step in which make_smac runs
Builds == pc = "start" /\ pc' # "start"

CallsTo(log, fn) == {i \in 1..Len(log) : log[i].fn = fn}

\* the keyword arguments the facade was called with
FacadeKwargs(log) == log[CHOOSE i \in CallsTo(log, "smac_facade") : TRUE].kwargs

\* the tree carries a warm-start path: a bound keyword of a partial, or a key
\* of a raw mapping
CarriesWarmstartFile(tree) ==
    /\ "initial_design" \in DOMAIN tree
    /\ tree["initial_design"].kind \in {"partial", "dict"}
    /\ "warmstart_file" \in DOMAIN tree["initial_design"].keywords
    /\ tree["initial_design"].keywords["warmstart_file"].kind = "str"
    /\ tree["initial_design"].keywords["warmstart_file"].v # ""

\* C7: when the tree carries a warm-start path and the file has N >= 1 rows,
\* a make_smac that gets as far as the initial design asks for it exactly
\* once, with n_configs = 0 and the N converted rows in row order, and never
\* calls the initial-design factory of the tree.
C7_WarmStartInitialDesign ==
    (/\ pc # "start"
     /\ CarriesWarmstartFile(smac_args)
     /\ csv.kind = "file"
     /\ err \in {"none", "KeyError: 'smac_facade'"}) =>
        /\ Cardinality(CallsTo(calls, "get_initial_design")) = 1
        /\ CallsTo(calls, "initial_design") = {}
        /\ \A i \in CallsTo(calls, "get_initial_design") :
             /\ calls[i].n_configs = 0
             /\ Len(calls[i].additional_configs) = Len(csv.rows)
             /\ \A r \in 1..Len(csv.rows) :
                  calls[i].additional_configs[r] =
                      convert_to_configuration(csv.rows[r], configspace)

C7_Witness ==
    /\ pc = "returned"
    /\ CarriesWarmstartFile(smac_args)
    /\ smac_args["initial_design"].kind = "partial"
    /\ csv.kind = "file"
    /\ Len(csv.rows) = 2
    /\ csv.rows[1] # csv.rows[2]
    /\ CallsTo(calls, "get_initial_design") # {}

\* C4: a tree whose "callbacks" is neither a mapping nor a sequence makes
\* make_smac raise: the facade is never called and no adapter is returned.
C4_MalformedCallbacksRejected ==
    (/\ pc # "start"
     /\ "callbacks" \in DOMAIN smac_args
     /\ smac_args["callbacks"].kind \in {"int", "str"}) =>
        /\ pc = "raised"
        /\ IsNone(adapter)
        /\ CallsTo(calls, "smac_facade") = {}

\* the callback sequence the tree asks for
ResolvedCallbacks(tree) ==
    IF "callbacks" \notin DOMAIN tree THEN <<>>
    ELSE IF tree["callbacks"].kind \in {"dict", "DictConfig"}
    THEN [i \in 1..Len(tree["callbacks"].items) |-> tree["callbacks"].items[i].v]
    ELSE tree["callbacks"].items

WellFormedCallbacks(tree) ==
    "callbacks" \in DOMAIN tree =>
        tree["callbacks"].kind \in {"dict", "DictConfig", "list", "ListConfig"}

\* q starts with p and has at most one more element
ExtendsByAtMostOne(q, p) ==
    /\ Len(q) \in {Len(p), Len(p) + 1}
    /\ \A i \in 1..Len(p) : q[i] = p[i]

\* C5: the facade gets as callbacks the empty sequence when the key is
\* absent, the mapping's values in insertion order when it is a mapping, the
\* sequence itself when it is a sequence (followed at most by the maximizer's
\* hook).
C5_CallbackResolution ==
    [][(/\ Builds
        /\ WellFormedCallbacks(smac_args)
        /\ CallsTo(calls', "smac_facade") # {}) =>
            /\ "callbacks" \in DOMAIN FacadeKwargs(calls')
            /\ ExtendsByAtMostOne(FacadeKwargs(calls')["callbacks"].items,
                                  ResolvedCallbacks(smac_args))]_vars

\* C6: for a tree with the "scenario" key and no other, make_smac returns an
\* adapter around a facade built with an empty callback list and no other
\* keyword.
C6_ScenarioOnlySucceeds ==
    [][(Builds /\ DOMAIN smac_args = {"scenario"}) =>
            /\ pc' = "returned"
            /\ adapter'.kind = "HyperSMACAdapter"
            /\ CallsTo(calls', "smac_facade") # {}
            /\ DOMAIN FacadeKwargs(calls') = {"callbacks"}
            /\ FacadeKwargs(calls')["callbacks"].items = <<>>]_vars

\* the tree with its scenario's output_directory string turned into a path
PathNormalized(tree) ==
    IF "scenario" \in DOMAIN tree /\ "output_directory" \in DOMAIN tree["scenario"]
    THEN [tree EXCEPT !["scenario"]["output_directory"] = [kind |-> "Path", v |-> @.v]]
    ELSE tree

\* C9: after make_smac returns, the caller's tree has the keys and values it
\* had before, but for the output_directory string turned into a path.
C9_TreeUnchangedButPath ==
    [][(Builds /\ pc' = "returned") => smac_args' = PathNormalized(smac_args)]_vars

\* C10: with both "acquisition_function" and "acquisition_maximizer" in the
\* tree, the hook is appended to the callbacks exactly when the maximizer
\* that was made exposes selector.expl2callback, and its absence raises
\* nothing.
C10_HookFromMadeMaximizer ==
    [][(/\ Builds
        /\ "acquisition_function" \in DOMAIN smac_args
        /\ "acquisition_maximizer" \in DOMAIN smac_args
        /\ "scenario" \in DOMAIN smac_args
        /\ "callbacks" \notin DOMAIN smac_args
        /\ "initial_design" \notin DOMAIN smac_args
        /\ "smac_facade" \in DOMAIN smac_args) =>
            /\ pc' = "returned"
            /\ Len(FacadeKwargs(calls')["callbacks"].items) =
                 IF smac_args["acquisition_maximizer"].makes = "selector_hook" THEN 1 ELSE 0]_vars

====
